---- MODULE Spec2Model ----
(***************************************************************************)
(* Model of src/worker.js: the render object classes, the CanvasScene      *)
(* driver and the worker's onmessage handler.  Spec is the worker as it    *)
(* is written (every scene is one of GlobeDot objects); LiveSpec adds the  *)
(* host's scheduling; VariantSpec drives a scene of any of the four        *)
(* classes through the methods of CanvasScene; InitLoopSpec follows init() *)
(* statement by statement for any integer renderObjectCount.               *)
(*                                                                         *)
(* Numbers.  Scene width/height, canvas buffer sizes, the context scale    *)
(* and timestamps are integers (pixels, milliseconds).  Per-object         *)
(* coordinates are fixed-point, in thousandths of a pixel; angles are in   *)
(* hundredths of a radian (so "theta += .01" is +1); sines, cosines,       *)
(* scaleProjected and globalAlpha are in thousandths.  NaN and undefined   *)
(* are two reserved values that the arithmetic operators propagate the     *)
(* way JavaScript does.                                                    *)
(*                                                                         *)
(* Handlers.  running is the stack of handlers in execution, innermost     *)
(* first; the event loop dispatches a message or a frame callback only     *)
(* when it is empty.  INIT, START and a faulting message are one step      *)
(* each; resize() and animate() are a sequence of steps, one per forEach   *)
(* iteration and one per canvas call, so that run-to-completion is a       *)
(* property of the model that is checked and not assumed.                  *)
(***************************************************************************)
EXTENDS Integers, Sequences, FiniteSets, TLC

VARIABLES
  canvasScene,  \* the module-level scene reference: 0 is null, else an index in scenes
  scenes,       \* every CanvasScene constructed so far (with its canvas and context)
  pending,      \* requestAnimationFrame callbacks not yet run: scene indices, oldest first
  now,          \* the value performance.now() returned last
  running,      \* the handlers in execution, innermost first: operation, scene, position
  nextId,       \* identity of the next render object constructed
  log,          \* the canvas calls of the current (or last) animate, in call order
  pre,          \* scenes as it was when the current (or last) handler began
  done,         \* the handlers completed so far, newest first, at most two kept
  msgs,         \* messages dispatched so far
  ticks,        \* animate calls begun so far
  faults        \* messages whose handler threw

vars == <<canvasScene, scenes, pending, now, running, nextId, log, pre, done, msgs, ticks, faults>>

-----------------------------------------------------------------------------
(* Bounds of the model *)

MaxMsgs == 3
MaxTicks == 2
MaxCount == 2
MaxObjects == 2

\* <<innerHeight, innerWidth>> and devicePixelRatio values carried by RESIZE
Sizes == {<<10, 20>>, <<20, 30>>}
Ratios == {1, 2}
\* Math.random() results, in tenths: those drawn for theta, for phi, for positions
ThetaRandoms == {0, 5}
PhiRandoms == {5}
PosRandoms == {2}
\* elapsed milliseconds between two reads of performance.now()
Deltas == {0, 16}

-----------------------------------------------------------------------------
(* JavaScript values *)

NaN == -999999
Undefined == -999998

IsNum(v) == v # NaN /\ v # Undefined

\* F(v), with v evaluated once
Apply(F(_), v) == CHOOSE r \in {F(p) : p \in {v}} : TRUE

\* quotient rounded towards zero
Trunc(n, d) == IF (n >= 0) = (d > 0) THEN n \div d
               ELSE 0 - ((0 - n) \div d)

Plus(x, y) == x + y
Minus(x, y) == x - y
Times(x, y) == x * y
\* x / y in fixed point: 0 / 0 is NaN (y = 0 arises only with x = 0 here)
Quotient(x, y) == IF y = 0 THEN NaN
                  ELSE IF y > 0 THEN Trunc(x, y) ELSE Trunc(0 - x, 0 - y)

\* Op(a, b) on numbers, NaN when an operand is NaN or undefined; each operand is
\* evaluated once
Arith(Op(_, _), a, b) ==
  Apply(LAMBDA p : IF IsNum(p[1]) /\ IsNum(p[2]) THEN Op(p[1], p[2]) ELSE NaN, <<a, b>>)

Add(a, b) == Arith(Plus, a, b)
Sub(a, b) == Arith(Minus, a, b)
Mul(a, b) == Arith(Times, a, b)
Div(a, b) == Arith(Quotient, a, b)

Magnitude(x, y) == IF x < 0 THEN 0 - x ELSE x
Abs(a) == Arith(Magnitude, a, 0)

\* ~~(n / d): the quotient truncated to a 32-bit integer; Infinity and NaN give 0.
\* (|n / d| <= |n| for integers n, d, so no value here reaches the 32-bit wrap.)
ToInt32Quotient(n, d) == IF d = 0 THEN 0 ELSE Trunc(n, d)

Min(a, b) == IF a <= b THEN a ELSE b

\* sine of x thousandths of a radian, |x| <= pi / 2, in thousandths
SinSeries(x, zero) ==
  LET x2 == (x * x) \div 1000
      t3 == (x2 * x) \div 6000
      t5 == (t3 * x2) \div 20000
      t7 == (t5 * x2) \div 42000
  IN  x - t3 + t5 - t7

\* the angle c (hundredths of a radian) brought into [-pi / 2, pi / 2], in thousandths
Fold(c, zero) ==
  LET r == c % 628
  IN  10 * (IF r <= 157 THEN r ELSE IF r <= 471 THEN 314 - r ELSE r - 628)

\* Math.sin, Math.cos: argument in hundredths of a radian, result in thousandths
Sin(c) == Arith(SinSeries, Arith(Fold, c, 0), 0)

Cos(c) == Sin(Add(c, 157))

\* Math.acos(2u - 1) for u in tenths, in hundredths of a radian
AcosTable == <<314, 250, 221, 198, 177, 157, 137, 116, 93, 64>>
Acos2uMinus1(u) == AcosTable[u + 1]

-----------------------------------------------------------------------------
(* RenderObject and GlobeDot.  id, updates and resizes are not fields of    *)
(* the JavaScript object: id is the object's identity, updates and resizes *)
(* count the calls of update() and resizeUpdate() it has received.         *)

\* RenderObject.constructor(ctx, width, height), r1 and r2 its two random draws
RenderObject(id, width, height, r1, r2) ==
  [id |-> id, updates |-> 0, resizes |-> 0,
   x |-> Mul(r1 * 100, width),
   y |-> Mul(r2 * 100, height),
   size |-> 5,
   height |-> height,
   width |-> width]

\* GlobeDot.constructor(ctx, width, height); r is the tuple of its random draws
GlobeDot(id, width, height, r) ==
  LET base == RenderObject(id, width, height, r[1], r[2])
  IN  [id |-> base.id, updates |-> base.updates, resizes |-> base.resizes,
       size |-> base.size, height |-> base.height, width |-> base.width,
       x |-> Mul(r[3] * 100 - 500, width),
       y |-> Mul(r[4] * 100 - 500, height),
       z |-> Mul(r[5] * 100 - 500, height),
       perspective |-> Mul(base.width, 800),
       projection_center_x |-> Div(Mul(base.width, 1000), 2),
       projection_center_y |-> Div(Mul(base.height, 1000), 2),
       scaleProjected |-> 0,
       xProjected |-> 0,
       yProjected |-> 0,
       theta |-> (r[6] * 628) \div 10,
       phi |-> Acos2uMinus1(r[7])]

\* the random draws of one GlobeDot construction
GlobeDotDraws ==
  {<<a, b, c, d, e, t, p>> : a \in PosRandoms, b \in PosRandoms, c \in PosRandoms,
                             d \in PosRandoms, e \in PosRandoms,
                             t \in ThetaRandoms, p \in PhiRandoms}

\* resizeUpdate as a resize that replaces the object by a new one
resizeUpdateRecreates(o, height, width, r1, r2) ==
  [GlobeDot(o.id + 1000, width, height, <<r1, r2, r1, r2, r1, 0, 5>>)
     EXCEPT !.resizes = o.resizes + 1]

\* RenderObject.resizeUpdate(height, width), inherited by GlobeDot
resizeUpdate(o, height, width, r1, r2) ==
  [o EXCEPT !.resizes = @ + 1,
            !.height = height,
            !.width = width,
            !.x = Mul(r1 * 100, width),
            !.y = Mul(r2 * 100, height),
            !.perspective = Mul(width, 800),
            !.projection_center_x = Div(Mul(width, 1000), 2),
            !.projection_center_y = Div(Mul(height, 1000), 2)]

\* update that also advances phi
updatePrecesses(o) ==
  [o EXCEPT !.updates = @ + 1, !.theta = Add(@, 1), !.phi = Add(@, 1)]

\* GlobeDot.update()
update(o) == [o EXCEPT !.updates = @ + 1, !.theta = Add(@, 1)]

\* GlobeDot.project(): the x, y, z coordinates in the 3D world and the perspective
projectWorld(o) ==
  LET w3 == Div(Mul(o.width, 1000), 3)
      sp == Div(Mul(w3, Sin(o.phi)), 1000)
  IN  [o EXCEPT !.x = Div(Mul(sp, Cos(o.theta)), 1000),
                !.y = Div(Mul(w3, Cos(o.phi)), 1000),
                !.z = Add(Div(Mul(sp, Sin(o.theta)), 1000), w3),
                !.perspective = Mul(o.width, 800)]

\* GlobeDot.project(): the distance from the user
projectScale(o) ==
  [o EXCEPT !.scaleProjected = Div(Mul(o.perspective, 1000), Add(o.perspective, o.z))]

\* GlobeDot.project(): the position on the 2d plane
projectPlane(o) ==
  [o EXCEPT !.xProjected = Add(Div(Mul(o.x, o.scaleProjected), 1000), o.projection_center_x),
            !.yProjected = Add(Div(Mul(o.y, o.scaleProjected), 1000), o.projection_center_y)]

\* GlobeDot.project()
project(o) == Apply(projectPlane, Apply(projectScale, Apply(projectWorld, o)))

\* the value GlobeDot.draw() assigns to ctx.globalAlpha, o already projected
drawAlpha(o) == Abs(Sub(1000, Div(o.z, o.width)))

\* ctx.globalAlpha = v: the context ignores a value that is not in [0, 1]
SetGlobalAlpha(old, v) == IF IsNum(v) /\ v >= 0 /\ v <= 1000 THEN v ELSE old

-----------------------------------------------------------------------------
(* CanvasScene.  The record also holds the scene's canvas (buffer size) and *)
(* its 2d context (scale transform, globalAlpha): a transferred canvas     *)
(* belongs to one INIT message, so to one scene.  starts and animates      *)
(* count the start() and animate() calls of the scene.                     *)

\* size of the canvas buffer as it arrives with INIT
DefaultCanvasWidth == 300
DefaultCanvasHeight == 150

\* CanvasScene.constructor(canvas, renderObjectCount, GlobeDot)
CanvasScene(renderObjectCount) ==
  [lastDrawTime |-> 0,
   fps |-> 0,
   canvasWidth |-> DefaultCanvasWidth,
   canvasHeight |-> DefaultCanvasHeight,
   scale |-> 1,
   globalAlpha |-> 1000,
   renderObjectCount |-> renderObjectCount,
   renderObjects |-> <<>>,
   width |-> Undefined,
   height |-> Undefined,
   starts |-> 0,
   animates |-> 0]

\* init that sizes the new objects by the canvas buffer, not by this.width and
\* this.height
initCanvasSized(sc, rs) ==
  [sc EXCEPT !.renderObjects =
     @ \o [k \in 1..sc.renderObjectCount |->
             GlobeDot(nextId + k - 1, sc.canvasWidth, sc.canvasHeight, rs[k])]]

\* CanvasScene.init(): push renderObjectCount new objects; rs[k] are the draws of the k-th
init(sc, rs) ==
  [sc EXCEPT !.renderObjects =
     @ \o [k \in 1..sc.renderObjectCount |->
             GlobeDot(nextId + k - 1, sc.width, sc.height, rs[k])]]

\* SetCanvasSize as an assignment that leaves the context as it was
SetCanvasSizeKeepsContext(sc, w, h) ==
  [sc EXCEPT !.canvasWidth = w, !.canvasHeight = h]

\* canvas.width = w; canvas.height = h: the buffer is resized and the context is
\* reset to its default state
SetCanvasSize(sc, w, h) ==
  [sc EXCEPT !.canvasWidth = w, !.canvasHeight = h, !.scale = 1, !.globalAlpha = 1000]

\* ResizeViewport with the canvas sized before this.width and this.height are assigned
ResizeViewportStale(sc, height, width, devicePixelRatio) ==
  LET a == IF devicePixelRatio > 1
           THEN [SetCanvasSize(sc, width * devicePixelRatio, height * devicePixelRatio)
                   EXCEPT !.scale = @ * devicePixelRatio]
           ELSE SetCanvasSize(sc, sc.width, sc.height)
  IN  [a EXCEPT !.width = width, !.height = height]

\* CanvasScene.resize(height, width, devicePixelRatio) up to the forEach
ResizeViewport(sc, height, width, devicePixelRatio) ==
  LET a == [sc EXCEPT !.width = width, !.height = height]
  IN  IF devicePixelRatio > 1
      THEN [SetCanvasSize(a, width * devicePixelRatio, height * devicePixelRatio)
              EXCEPT !.scale = @ * devicePixelRatio]
      ELSE SetCanvasSize(a, a.width, a.height)

\* the viewport state of a scene
Viewport(sc) ==
  [width |-> sc.width, height |-> sc.height,
   canvasWidth |-> sc.canvasWidth, canvasHeight |-> sc.canvasHeight,
   scale |-> sc.scale]

\* AnimateTime with this.lastDrawTime assigned before this.fps is computed
AnimateTimeSwapped(sc, t) ==
  [sc EXCEPT !.fps = ToInt32Quotient(1000, t - t),
             !.lastDrawTime = t,
             !.animates = @ + 1]

\* the first three statements of CanvasScene.animate() at time t
AnimateTime(sc, t) ==
  [sc EXCEPT !.fps = ToInt32Quotient(1000, t - sc.lastDrawTime),
             !.lastDrawTime = t,
             !.animates = @ + 1]

-----------------------------------------------------------------------------
(* Handlers in execution and the record of completed handlers *)

\* AnimateOrder with draw() called before clear()
AnimateOrderDrawFirst == <<"update", "draw", "clear", "drawFps">>

\* the statements of animate() after requestAnimationFrame, in order
AnimateOrder == <<"update", "clear", "draw", "drawFps">>

Frame(op, s, h, w, d) ==
  [op |-> op, scene |-> s, stage |-> 1, i |-> 1, height |-> h, width |-> w, ratio |-> d]

Cur == Head(running)

Count(scs, f) == Len(scs[f.scene].renderObjects)

\* the statement of animate() frame f is at
Stage(f) == IF f.stage <= Len(AnimateOrder) THEN AnimateOrder[f.stage] ELSE "return"

\* a forEach that has visited every object returns, and animate() moves on
Skip(scs, f) ==
  IF f.op = "animate" /\ Stage(f) \in {"update", "draw"} /\ f.i > Count(scs, f)
  THEN [f EXCEPT !.stage = @ + 1, !.i = 1]
  ELSE f

Settle(scs, f) == Skip(scs, Skip(scs, Skip(scs, f)))

Returned(scs, f) ==
  \/ f.op = "resize" /\ f.i > Count(scs, f)
  \/ f.op = "animate" /\ Stage(f) = "return"

Completed(op, s, h, w, d, sc) ==
  [op |-> op, scene |-> s, height |-> h, width |-> w, ratio |-> d, viewport |-> Viewport(sc)]

Record(e) == <<e>> \o SubSeq(done, 1, Min(1, Len(done)))

\* frame f has made a step, rest is the stack under it: f goes on, or returns
Proceed(f, rest) ==
  LET g == Settle(scenes', f)
  IN  IF Returned(scenes', g)
      THEN /\ running' = rest
           /\ done' = Record(Completed(IF g.op = "resize" THEN "RESIZE" ELSE "TICK",
                                       g.scene, g.height, g.width, g.ratio, scenes'[g.scene]))
      ELSE /\ running' = <<g>> \o rest
           /\ done' = done

\* one canvas call (or update call) of animate
Event(ev, id, a, b, c, w, h, alpha) ==
  [ev |-> ev, id |-> id, a |-> a, b |-> b, c |-> c, w |-> w, h |-> h, alpha |-> alpha]

\* EventLoopIdle of a host that starts a task while a handler is executing
EventLoopPreempts == TRUE

\* the event loop runs a task only when no handler is executing
EventLoopIdle == running = <<>>

\* requestAnimationFrame that drops the callback
requestAnimationFrameDrops(q, s) == q

\* requestAnimationFrame(() => this.animate()) of scene s, q the callbacks pending
requestAnimationFrame(q, s) == Append(q, s)

-----------------------------------------------------------------------------
Init ==
  /\ canvasScene = 0
  /\ scenes = <<>>
  /\ pending = <<>>
  /\ now = 0
  /\ running = <<>>
  /\ nextId = 1
  /\ log = <<>>
  /\ pre = <<>>
  /\ done = <<>>
  /\ msgs = 0
  /\ ticks = 0
  /\ faults = 0

\* start that restarts the loop of scene s: the callbacks pending for s are
\* cancelled before the new one is requested
startRestarts(s, rs) ==
  /\ scenes' = [scenes EXCEPT ![s] = [init(@, rs) EXCEPT !.starts = @ + 1]]
  /\ nextId' = nextId + scenes[s].renderObjectCount
  /\ pending' = requestAnimationFrame(SelectSeq(pending, LAMBDA t : t # s), s)

\* CanvasScene.start() on scene s: init(), then requestAnimationFrame
start(s, rs) ==
  /\ scenes' = [scenes EXCEPT ![s] = [init(@, rs) EXCEPT !.starts = @ + 1]]
  /\ nextId' = nextId + scenes[s].renderObjectCount
  /\ pending' = requestAnimationFrame(pending, s)

\* OnInit without the break: case 'INIT' runs on into case 'START'
OnInitFallsThrough ==
  /\ EventLoopIdle
  /\ msgs < MaxMsgs
  /\ \E count \in 0..MaxCount :
       \E rs \in [1..count -> GlobeDotDraws] :
         /\ scenes' = Append(scenes, [init(CanvasScene(count), rs) EXCEPT !.starts = @ + 1])
         /\ canvasScene' = Len(scenes) + 1
         /\ nextId' = nextId + count
         /\ done' = Record(Completed("INIT", Len(scenes) + 1, 0, 0, 0, CanvasScene(count)))
  /\ pending' = requestAnimationFrame(pending, Len(scenes) + 1)
  /\ pre' = scenes
  /\ msgs' = msgs + 1
  /\ UNCHANGED <<now, running, log, ticks, faults>>

\* onmessage, case 'INIT'
OnInit ==
  /\ EventLoopIdle
  /\ msgs < MaxMsgs
  /\ \E count \in 0..MaxCount :
       /\ scenes' = Append(scenes, CanvasScene(count))
       /\ canvasScene' = Len(scenes) + 1
       /\ done' = Record(Completed("INIT", Len(scenes) + 1, 0, 0, 0, CanvasScene(count)))
  /\ pre' = scenes
  /\ msgs' = msgs + 1
  /\ UNCHANGED <<pending, now, running, nextId, log, ticks, faults>>

\* onmessage, case 'START', canvasScene not null
OnStart ==
  /\ EventLoopIdle
  /\ msgs < MaxMsgs
  /\ canvasScene # 0
  /\ Len(scenes[canvasScene].renderObjects) + scenes[canvasScene].renderObjectCount
        <= MaxObjects
  /\ \E rs \in [1..scenes[canvasScene].renderObjectCount -> GlobeDotDraws] :
       start(canvasScene, rs)
  /\ done' = Record(Completed("START", canvasScene, 0, 0, 0, scenes'[canvasScene]))
  /\ pre' = scenes
  /\ msgs' = msgs + 1
  /\ UNCHANGED <<canvasScene, now, running, log, ticks, faults>>

\* OnNullScene of a handler that constructs a default scene when there is none
OnNullSceneCreates ==
  /\ EventLoopIdle
  /\ msgs < MaxMsgs
  /\ canvasScene = 0
  /\ \E op \in {"START", "RESIZE"} :
       done' = Record([op |-> "FAULT " \o op, scene |-> 0, height |-> 0, width |-> 0,
                       ratio |-> 0, viewport |-> Viewport(CanvasScene(0))])
  /\ scenes' = Append(scenes, CanvasScene(0))
  /\ canvasScene' = Len(scenes) + 1
  /\ faults' = faults + 1
  /\ pre' = scenes
  /\ msgs' = msgs + 1
  /\ UNCHANGED <<pending, now, running, nextId, log, ticks>>

\* onmessage, case 'START' or 'RESIZE', canvasScene null: the call on null throws
OnNullScene ==
  /\ EventLoopIdle
  /\ msgs < MaxMsgs
  /\ canvasScene = 0
  /\ \E op \in {"START", "RESIZE"} :
       done' = Record([op |-> "FAULT " \o op, scene |-> 0, height |-> 0, width |-> 0,
                       ratio |-> 0, viewport |-> Viewport(CanvasScene(0))])
  /\ faults' = faults + 1
  /\ pre' = scenes
  /\ msgs' = msgs + 1
  /\ UNCHANGED <<canvasScene, scenes, pending, now, running, nextId, log, ticks>>

\* onmessage, case 'RESIZE', canvasScene not null: resize() up to the forEach
OnResize ==
  /\ EventLoopIdle
  /\ msgs < MaxMsgs
  /\ canvasScene # 0
  /\ \E hw \in Sizes, d \in Ratios :
       /\ scenes' = [scenes EXCEPT ![canvasScene] = ResizeViewport(@, hw[1], hw[2], d)]
       /\ Proceed([Frame("resize", canvasScene, hw[1], hw[2], d) EXCEPT !.stage = 0],
                  running)
  /\ pre' = scenes
  /\ msgs' = msgs + 1
  /\ UNCHANGED <<canvasScene, pending, now, nextId, log, ticks, faults>>

\* one iteration of the forEach of resize(): resizeUpdate on object Cur.i
ResizeObject ==
  /\ running # <<>>
  /\ Cur.op = "resize"
  /\ \E r1 \in PosRandoms, r2 \in PosRandoms :
       scenes' = [scenes EXCEPT ![Cur.scene].renderObjects[Cur.i] =
                    resizeUpdate(@, scenes[Cur.scene].height, scenes[Cur.scene].width, r1, r2)]
  /\ Proceed([Cur EXCEPT !.i = @ + 1], Tail(running))
  /\ UNCHANGED <<canvasScene, pending, now, nextId, log, pre, msgs, ticks, faults>>

\* a frame callback runs: animate() up to this.update()
Animate ==
  /\ EventLoopIdle
  /\ ticks < MaxTicks
  /\ pending # <<>>
  /\ \E d \in Deltas :
       /\ now' = now + d
       /\ scenes' = [scenes EXCEPT ![Head(pending)] = AnimateTime(@, now + d)]
  /\ pending' = requestAnimationFrame(Tail(pending), Head(pending))
  /\ Proceed(Frame("animate", Head(pending), 0, 0, 0), running)
  /\ log' = <<>>
  /\ pre' = scenes
  /\ ticks' = ticks + 1
  /\ UNCHANGED <<canvasScene, nextId, msgs, faults>>

\* one iteration of the forEach of CanvasScene.update()
UpdateObject ==
  /\ running # <<>>
  /\ Cur.op = "animate"
  /\ Stage(Cur) = "update"
  /\ scenes' = [scenes EXCEPT ![Cur.scene].renderObjects[Cur.i] = update(@)]
  /\ log' = Append(log, Event("update", scenes[Cur.scene].renderObjects[Cur.i].id,
                              0, 0, 0, 0, 0, 0))
  /\ Proceed([Cur EXCEPT !.i = @ + 1], Tail(running))
  /\ UNCHANGED <<canvasScene, pending, now, nextId, pre, msgs, ticks, faults>>

\* Clear as a clear() that also puts the context's globalAlpha back to 1
ClearRestoresAlpha ==
  /\ running # <<>>
  /\ Cur.op = "animate"
  /\ Stage(Cur) = "clear"
  /\ log' = Append(log, Event("clear", 0, 0, 0, 0, scenes[Cur.scene].width,
                              scenes[Cur.scene].height, 1000))
  /\ scenes' = [scenes EXCEPT ![Cur.scene].globalAlpha = 1000]
  /\ Proceed([Cur EXCEPT !.stage = @ + 1], Tail(running))
  /\ UNCHANGED <<canvasScene, pending, now, nextId, pre, msgs, ticks, faults>>

\* CanvasScene.clear()
Clear ==
  /\ running # <<>>
  /\ Cur.op = "animate"
  /\ Stage(Cur) = "clear"
  /\ log' = Append(log, Event("clear", 0, 0, 0, 0, scenes[Cur.scene].width,
                              scenes[Cur.scene].height, scenes[Cur.scene].globalAlpha))
  /\ scenes' = scenes
  /\ Proceed([Cur EXCEPT !.stage = @ + 1], Tail(running))
  /\ UNCHANGED <<canvasScene, pending, now, nextId, pre, msgs, ticks, faults>>

\* GlobeDot.draw() of object o on a context whose globalAlpha is alpha: the object
\* projected, the globalAlpha assigned and the drawImage call made
GlobeDotDraw(o, alpha) ==
  Apply(LAMBDA p :
          [object |-> p[1],
           globalAlpha |-> p[2],
           call |-> Event("draw", p[1].id, p[1].xProjected, p[1].yProjected,
                          Mul(5, p[1].scaleProjected), p[1].width, p[1].height, p[2])],
        Apply(LAMBDA q : <<q, SetGlobalAlpha(alpha, drawAlpha(q))>>, project(o)))

\* the object and the context the animate() in execution is about to draw
DrawNext ==
  GlobeDotDraw(scenes[Cur.scene].renderObjects[Cur.i], scenes[Cur.scene].globalAlpha)

\* one iteration of the forEach of CanvasScene.draw(): GlobeDot.draw() on object Cur.i
DrawObject ==
  /\ running # <<>>
  /\ Cur.op = "animate"
  /\ Stage(Cur) = "draw"
  /\ scenes' = [scenes EXCEPT ![Cur.scene].renderObjects[Cur.i] = DrawNext.object,
                              ![Cur.scene].globalAlpha = DrawNext.globalAlpha]
  /\ log' = Append(log, DrawNext.call)
  /\ Proceed([Cur EXCEPT !.i = @ + 1], Tail(running))
  /\ UNCHANGED <<canvasScene, pending, now, nextId, pre, msgs, ticks, faults>>

\* CanvasScene.drawFps()
DrawFps ==
  /\ running # <<>>
  /\ Cur.op = "animate"
  /\ Stage(Cur) = "drawFps"
  /\ log' = Append(log, Event("drawFps", 0, scenes[Cur.scene].fps, 10, 10,
                              scenes[Cur.scene].width, scenes[Cur.scene].height,
                              scenes[Cur.scene].globalAlpha))
  /\ scenes' = scenes
  /\ Proceed([Cur EXCEPT !.stage = @ + 1], Tail(running))
  /\ UNCHANGED <<canvasScene, pending, now, nextId, pre, msgs, ticks, faults>>

Next ==
  \/ OnInit
  \/ OnStart
  \/ OnNullScene
  \/ OnResize
  \/ ResizeObject
  \/ Animate
  \/ UpdateObject
  \/ Clear
  \/ DrawObject
  \/ DrawFps

Spec == Init /\ [][Next]_vars

\* A frame callback past the horizon MaxTicks of the model: the callback is run and
\* re-armed as in Animate; what the frame computes and draws is not followed.
AnimateBeyond ==
  /\ EventLoopIdle
  /\ ticks >= MaxTicks
  /\ pending # <<>>
  /\ pending' = requestAnimationFrame(Tail(pending), Head(pending))
  /\ ticks' = IF ticks = MaxTicks THEN MaxTicks + 1 ELSE MaxTicks
  /\ UNCHANGED <<canvasScene, scenes, now, running, nextId, log, pre, done, msgs, faults>>

LiveNext == Next \/ AnimateBeyond

\* The host runs every handler to its end, and runs a pending frame callback
\* whenever the worker is idle.
LiveSpec ==
  /\ Init
  /\ [][LiveNext]_vars
  /\ WF_vars(ResizeObject \/ UpdateObject \/ Clear \/ DrawObject \/ DrawFps)
  /\ WF_vars(Animate \/ AnimateBeyond)

-----------------------------------------------------------------------------
(* The render object variants.  CanvasScene takes the class of its objects *)
(* as a parameter; the worker passes GlobeDot, the other classes of the    *)
(* file are RenderObject, CircleDot and SlantedCircleDot.  An object is a  *)
(* record with a class field; a property the constructor of its class does *)
(* not assign reads undefined.  CircleDot.angle is in degrees.             *)

Variants == {"RenderObject", "CircleDot", "SlantedCircleDot", "GlobeDot"}

\* the properties a constructor may leave unassigned
Absent ==
  [angle |-> Undefined, radius |-> Undefined, z |-> Undefined, theta |-> Undefined,
   phi |-> Undefined, perspective |-> Undefined, projection_center_x |-> Undefined,
   projection_center_y |-> Undefined, scaleProjected |-> Undefined,
   xProjected |-> Undefined, yProjected |-> Undefined]

\* CircleDot.constructor(ctx, width, height); r[6] is its random draw
CircleDot(id, width, height, r) ==
  [x |-> 0, y |-> 0,
   angle |-> (r[6] * 360) \div 10,
   radius |-> Div(Mul(width, 1000), 4)]
    @@ RenderObject(id, width, height, r[1], r[2]) @@ Absent

\* SlantedCircleDot.constructor(ctx, width, height); r[6] is its random draw
SlantedCircleDot(id, width, height, r) ==
  [x |-> 0, y |-> 0, z |-> 0,
   theta |-> ((r[6] * 360) \div 10) * 100,
   phi |-> 4500,
   radius |-> Div(Mul(width, 1000), 4),
   perspective |-> 0,
   projection_center_x |-> Div(Mul(width, 1000), 2),
   projection_center_y |-> Div(Mul(height, 1000), 2),
   scaleProjected |-> 0, xProjected |-> 0, yProjected |-> 0]
    @@ RenderObject(id, width, height, r[1], r[2]) @@ Absent

\* new RenderObjectClass(ctx, width, height) for the class c
New(c, id, width, height, r) ==
  [class |-> c] @@
    (CASE c = "RenderObject" -> RenderObject(id, width, height, r[1], r[2]) @@ Absent
       [] c = "CircleDot" -> CircleDot(id, width, height, r)
       [] c = "SlantedCircleDot" -> SlantedCircleDot(id, width, height, r)
       [] c = "GlobeDot" -> GlobeDot(id, width, height, r) @@ Absent)

\* RenderObject.update() {}
RenderObjectUpdate(o) == [o EXCEPT !.updates = @ + 1]

\* CircleDot.update()
CircleDotUpdate(o) == [o EXCEPT !.updates = @ + 1, !.angle = Add(@, 1)]

\* o.update() by the class of o; SlantedCircleDot.update() is GlobeDot's statement
Update(o) ==
  CASE o.class = "RenderObject" -> RenderObjectUpdate(o)
    [] o.class = "CircleDot" -> CircleDotUpdate(o)
    [] o.class \in {"SlantedCircleDot", "GlobeDot"} -> update(o)

\* CircleDot.project(): theta = angle * PI / 180, in hundredths of a radian
CircleDotProject(o) ==
  LET theta == Div(Mul(o.angle, 314), 180)
  IN  [o EXCEPT !.x = Add(Div(Mul(o.radius, Cos(theta)), 1000), Div(Mul(o.width, 1000), 2)),
                !.y = Add(Div(Mul(o.radius, Sin(theta)), 1000), Div(Mul(o.height, 1000), 2))]

\* SlantedCircleDot.project(): the coordinates in the 3D world and the perspective
SlantedCircleDotWorld(o) ==
  LET w3 == Div(Mul(o.width, 1000), 3)
      sp == Div(Mul(w3, Sin(o.phi)), 1000)
  IN  [o EXCEPT !.x = Div(Mul(sp, Cos(o.theta)), 1000),
                !.y = Div(Mul(Div(Mul(o.height, 1000), 2), Sin(o.phi)), 1000),
                !.z = Add(Div(Mul(sp, Sin(o.theta)), 1000), w3),
                !.perspective = Mul(o.width, 800)]

\* SlantedCircleDot.project(): the position on the 2d plane
SlantedCircleDotPlane(o) ==
  [o EXCEPT !.xProjected = Add(Div(Mul(o.x, o.scaleProjected), 1000), o.projection_center_x),
            !.yProjected = Add(Div(Mul(o.y, o.scaleProjected), 1000),
                               Div(o.projection_center_y, 2))]

\* SlantedCircleDot.project()
SlantedCircleDotProject(o) ==
  Apply(SlantedCircleDotPlane, Apply(projectScale, Apply(SlantedCircleDotWorld, o)))

\* o.project() by the class of o; RenderObject has no projection step
Project(o) ==
  CASE o.class = "RenderObject" -> o
    [] o.class = "CircleDot" -> CircleDotProject(o)
    [] o.class = "SlantedCircleDot" -> SlantedCircleDotProject(o)
    [] o.class = "GlobeDot" -> project(o)

\* the rasterizing statements of draw() on object p and a context whose globalAlpha
\* is alpha: fillRect for RenderObject, arc and fill for CircleDot and
\* SlantedCircleDot, drawImage for GlobeDot, the two 3D classes assigning
\* ctx.globalAlpha first
Rasterize(p, alpha) ==
  CASE p.class = "RenderObject" ->
         [object |-> p, globalAlpha |-> alpha,
          call |-> Event("draw", p.id, p.x, p.y, p.size * 1000, p.width, p.height, alpha)]
    [] p.class = "CircleDot" ->
         [object |-> p, globalAlpha |-> alpha,
          call |-> Event("draw", p.id, p.x, p.y, 3000, p.width, p.height, alpha)]
    [] p.class \in {"SlantedCircleDot", "GlobeDot"} ->
         Apply(LAMBDA a :
                 [object |-> p, globalAlpha |-> a,
                  call |-> Event("draw", p.id, p.xProjected, p.yProjected,
                                 Mul(5, p.scaleProjected), p.width, p.height, a)],
               SetGlobalAlpha(alpha, drawAlpha(p)))

\* Draw with the rasterizing statements before this.project()
DrawThenProject(o, alpha) ==
  [Rasterize(o, alpha) EXCEPT !.object = Project(o)]

\* o.draw() by the class of o, on a context whose globalAlpha is alpha: the object
\* after the call, the context's globalAlpha after it, and the canvas call made
Draw(o, alpha) ==
  Rasterize(Project(o), alpha)

\* CanvasScene.draw(): the objects from the k-th on are drawn in collection order
RECURSIVE DrawFrom(_, _, _)
DrawFrom(objs, alpha, k) ==
  IF k > Len(objs)
  THEN [objects |-> objs, globalAlpha |-> alpha, calls |-> <<>>]
  ELSE LET d == Draw(objs[k], alpha)
           t == DrawFrom([objs EXCEPT ![k] = d.object], d.globalAlpha, k + 1)
       IN  [t EXCEPT !.calls = <<d.call>> \o @]

\* new CanvasScene(canvas, 1, c)
VariantScene(c) == [RenderObjectClass |-> c] @@ CanvasScene(1)

VariantInit ==
  /\ canvasScene = 1
  /\ scenes \in {<<VariantScene(c)>> : c \in Variants}
  /\ pending = <<>>
  /\ now = 0
  /\ running = <<>>
  /\ nextId = 1
  /\ log = <<>>
  /\ pre = <<>>
  /\ done = <<>>
  /\ msgs = 0
  /\ ticks = 0
  /\ faults = 0

\* CanvasScene.start(): init() pushes one new object of the scene's class
VariantStart ==
  /\ msgs < MaxMsgs
  /\ Len(scenes[1].renderObjects) < MaxObjects
  /\ \E r \in GlobeDotDraws :
       scenes' = [scenes EXCEPT ![1].renderObjects =
                    Append(@, New(scenes[1].RenderObjectClass, nextId,
                                  scenes[1].width, scenes[1].height, r)),
                  ![1].starts = @ + 1]
  /\ nextId' = nextId + 1
  /\ pending' = requestAnimationFrame(pending, 1)
  /\ done' = <<Completed("START", 1, 0, 0, 0, scenes'[1])>>
  /\ msgs' = msgs + 1
  /\ UNCHANGED <<canvasScene, now, running, log, pre, ticks, faults>>

\* CanvasScene.resize(height, width, devicePixelRatio), the forEach included
VariantResize ==
  /\ msgs < MaxMsgs
  /\ \E hw \in Sizes, d \in Ratios, r1 \in PosRandoms, r2 \in PosRandoms :
       /\ scenes' = [scenes EXCEPT ![1] =
                       [ResizeViewport(@, hw[1], hw[2], d) EXCEPT !.renderObjects =
                          [k \in 1..Len(@) |-> resizeUpdate(@[k], hw[1], hw[2], r1, r2)]]]
       /\ done' = <<Completed("RESIZE", 1, hw[1], hw[2], d, scenes'[1])>>
  /\ msgs' = msgs + 1
  /\ UNCHANGED <<canvasScene, pending, now, running, nextId, log, pre, ticks, faults>>

\* CanvasScene.update()
VariantUpdate ==
  /\ ticks < MaxTicks
  /\ scenes[1].renderObjects # <<>>
  /\ scenes' = [scenes EXCEPT ![1].renderObjects = [k \in 1..Len(@) |-> Update(@[k])]]
  /\ done' = <<Completed("UPDATE", 1, 0, 0, 0, scenes'[1])>>
  /\ ticks' = ticks + 1
  /\ UNCHANGED <<canvasScene, pending, now, running, nextId, log, pre, msgs, faults>>

\* CanvasScene.draw()
VariantDraw ==
  /\ scenes[1].renderObjects # <<>>
  /\ LET d == DrawFrom(scenes[1].renderObjects, scenes[1].globalAlpha, 1)
     IN  /\ scenes' = [scenes EXCEPT ![1].renderObjects = d.objects,
                                     ![1].globalAlpha = d.globalAlpha]
         /\ log' = d.calls
  /\ done' = <<Completed("DRAW", 1, 0, 0, 0, scenes'[1])>>
  /\ UNCHANGED <<canvasScene, pending, now, running, nextId, pre, msgs, ticks, faults>>

VariantNext ==
  \/ VariantStart
  \/ VariantResize
  \/ VariantUpdate
  \/ VariantDraw

\* A scene of any of the four classes, driven through the methods of CanvasScene
VariantSpec == VariantInit /\ [][VariantNext]_vars

-----------------------------------------------------------------------------
(* init() statement by statement, for any integer renderObjectCount.  The   *)
(* frame of a start() in execution holds in i the local variable i of      *)
(* init().  "while (i--)" runs its body when i is not 0 and decrements i    *)
(* either way; a negative i moves away from 0 and the loop goes on until    *)
(* the host runs out of memory.  The model follows the collection up to     *)
(* MaxObjects objects and a negative i down to -(MaxCount + 2), below which *)
(* it keeps i among the two lowest values: negative and still changing.     *)

\* i after i--
Decrement(i) == IF i > 0 - MaxCount - 2 THEN i - 1 ELSE i + 1

\* onmessage, case 'INIT', evt.data.renderObjectCount any integer
OnInitAnyCount ==
  /\ EventLoopIdle
  /\ msgs < MaxMsgs
  /\ \E count \in (0 - MaxCount)..MaxCount :
       /\ scenes' = Append(scenes, CanvasScene(count))
       /\ canvasScene' = Len(scenes) + 1
       /\ done' = Record(Completed("INIT", Len(scenes) + 1, 0, 0, 0, CanvasScene(count)))
  /\ pre' = scenes
  /\ msgs' = msgs + 1
  /\ UNCHANGED <<pending, now, running, nextId, log, ticks, faults>>

\* onmessage, case 'START', canvasScene not null: start() calls init(), which
\* begins with let i = this.renderObjectCount
StartBegin ==
  /\ EventLoopIdle
  /\ msgs < MaxMsgs
  /\ canvasScene # 0
  /\ scenes[canvasScene].renderObjectCount >= 0 =>
       Len(scenes[canvasScene].renderObjects) + scenes[canvasScene].renderObjectCount
         <= MaxObjects
  /\ running' = <<[Frame("start", canvasScene, 0, 0, 0)
                     EXCEPT !.i = scenes[canvasScene].renderObjectCount]>>
  /\ pre' = scenes
  /\ msgs' = msgs + 1
  /\ UNCHANGED <<canvasScene, scenes, pending, now, nextId, log, done, ticks, faults>>

\* while (i--) with i not 0: the body pushes one new object
InitPush ==
  /\ running # <<>>
  /\ Cur.op = "start"
  /\ Cur.i # 0
  /\ IF Len(scenes[Cur.scene].renderObjects) < MaxObjects
     THEN /\ \E r \in GlobeDotDraws :
               scenes' = [scenes EXCEPT ![Cur.scene].renderObjects =
                            Append(@, GlobeDot(nextId, scenes[Cur.scene].width,
                                               scenes[Cur.scene].height, r))]
          /\ nextId' = nextId + 1
     ELSE UNCHANGED <<scenes, nextId>>
  /\ running' = <<[Cur EXCEPT !.i = Decrement(@)]>> \o Tail(running)
  /\ UNCHANGED <<canvasScene, pending, now, log, pre, done, msgs, ticks, faults>>

\* while (i--) with i = 0: init() returns, start() requests a frame and returns
StartReturn ==
  /\ running # <<>>
  /\ Cur.op = "start"
  /\ Cur.i = 0
  /\ scenes' = [scenes EXCEPT ![Cur.scene].starts = @ + 1]
  /\ pending' = requestAnimationFrame(pending, Cur.scene)
  /\ running' = Tail(running)
  /\ done' = Record(Completed("START", Cur.scene, 0, 0, 0, scenes'[Cur.scene]))
  /\ UNCHANGED <<canvasScene, now, nextId, log, pre, msgs, ticks, faults>>

InitLoopNext ==
  \/ OnInitAnyCount
  \/ StartBegin
  \/ InitPush
  \/ StartReturn
  \/ OnResize
  \/ ResizeObject

\* The worker with init() followed statement by statement; the host runs every
\* handler on, step after step, for as long as it has a step to make.
InitLoopSpec ==
  /\ Init
  /\ [][InitLoopNext]_vars
  /\ WF_vars(InitPush \/ StartReturn \/ ResizeObject)

-----------------------------------------------------------------------------
(* Properties *)

SceneIds == 1..Len(scenes)

Idle == running = <<>>

\* the handler that completed last is op
LastDone(op) == Idle /\ done # <<>> /\ done[1].op = op

\* an animate() is in execution
InAnimate == running # <<>> /\ Cur.op = "animate"

\* a resize() is in execution
InResize == running # <<>> /\ Cur.op = "resize"

Ids(objs) == [k \in 1..Len(objs) |-> objs[k].id]

AnyStarted == \E s \in SceneIds : scenes[s].starts > 0

\* C1: a scene on which start() has not been called has an empty collection, no
\* frame callback pending or running for it and no animate() run on it; the only
\* steps that change the pending callbacks are a START message and the beginning
\* of a frame callback (so INIT and RESIZE schedule nothing); and an INIT step
\* adds one scene, empty, makes it the current one and starts nothing.
C1_InitDoesNotStart ==
  /\ [](\A s \in SceneIds :
          scenes[s].starts = 0 =>
            /\ scenes[s].renderObjects = <<>>
            /\ \A k \in 1..Len(pending) : pending[k] # s
            /\ scenes[s].animates = 0
            /\ \A k \in 1..Len(running) : ~(running[k].op = "animate" /\ running[k].scene = s))
  /\ [][/\ pending' # pending =>
             \/ msgs' = msgs + 1 /\ done'[1].op = "START"
             \/ ticks' # ticks
        /\ (msgs' = msgs + 1 /\ done'[1].op = "INIT") =>
             /\ Len(scenes') = Len(scenes) + 1
             /\ canvasScene' = Len(scenes')
             /\ scenes'[canvasScene'].renderObjects = <<>>
             /\ scenes'[canvasScene'].renderObjectCount \in 0..MaxCount
             /\ SubSeq(scenes', 1, Len(scenes)) = scenes
             /\ UNCHANGED <<pending, running, ticks>>]_vars

\* C1 witness: INIT, then a RESIZE, and the scene has not been started
C1_Witness ==
  /\ LastDone("RESIZE")
  /\ Len(done) = 2
  /\ done[2].op = "INIT"
  /\ canvasScene # 0
  /\ scenes[canvasScene].starts = 0
  /\ scenes[canvasScene].width # Undefined

\* C2: a START or RESIZE message handled while canvasScene is null throws and
\* leaves the whole program state as it was: the scene reference stays null, no
\* scene or object is created, no callback is scheduled.
C2_EarlyMessageChangesNothing ==
  [][(canvasScene = 0 /\ msgs' = msgs + 1 /\ done'[1].op # "INIT") =>
       /\ faults' = faults + 1
       /\ UNCHANGED <<canvasScene, scenes, pending, now, running, nextId, log>>]_vars

\* C2 witness: a message faulted on the null scene, then INIT and START were handled
C2_Witness ==
  /\ faults > 0
  /\ LastDone("START")
  /\ Len(done) = 2
  /\ done[2].op = "INIT"
  /\ Len(pending) = 1

\* C3 (as claimed): after every START handled on an initialised scene the collection
\* holds exactly renderObjectCount objects.
C3_ExactlyCountAfterStart ==
  LastDone("START") =>
    Len(scenes[done[1].scene].renderObjects) = scenes[done[1].scene].renderObjectCount

\* C4: resize() keeps the collection: while it runs and when it has returned, the
\* scene holds the objects it held when the RESIZE was dispatched, same identities
\* in the same order, with their angles and update counts untouched; each object
\* the forEach has visited has received exactly one resizeUpdate, so every object
\* exactly one once resize() has returned.
C4_ResizeKeepsObjects ==
  /\ InResize =>
       LET objs == scenes[Cur.scene].renderObjects
           was  == pre[Cur.scene].renderObjects
       IN  /\ Ids(objs) = Ids(was)
           /\ \A k \in 1..Len(objs) :
                /\ objs[k].resizes = was[k].resizes + (IF k < Cur.i THEN 1 ELSE 0)
                /\ objs[k].updates = was[k].updates
                /\ objs[k].theta = was[k].theta
                /\ objs[k].phi = was[k].phi
  /\ LastDone("RESIZE") =>
       LET objs == scenes[done[1].scene].renderObjects
           was  == pre[done[1].scene].renderObjects
       IN  /\ Ids(objs) = Ids(was)
           /\ \A k \in 1..Len(objs) :
                /\ objs[k].resizes = was[k].resizes + 1
                /\ objs[k].updates = was[k].updates
                /\ objs[k].theta = was[k].theta
                /\ objs[k].phi = was[k].phi
           /\ \A t \in SceneIds : t # done[1].scene => scenes[t] = pre[t]

\* C4 witness: a resize() has returned on a scene that holds two objects
C4_Witness ==
  /\ LastDone("RESIZE")
  /\ Len(scenes[done[1].scene].renderObjects) = 2
  /\ scenes[done[1].scene].renderObjects[2].resizes = 1

\* two RESIZE messages in a row, on the same scene, with the same arguments
SameResizeTwice ==
  /\ LastDone("RESIZE")
  /\ Len(done) = 2
  /\ done[2].op = "RESIZE"
  /\ done[2].scene = done[1].scene
  /\ done[2].height = done[1].height
  /\ done[2].width = done[1].width
  /\ done[2].ratio = done[1].ratio

\* C5: after resize(h, w, 1) called twice in a row with the same arguments, the
\* viewport state (scene width and height, canvas buffer width and height, context
\* scale) is what it was after the first call.
C5_ResizeIdempotent ==
  (SameResizeTwice /\ done[1].ratio = 1) => done[1].viewport = done[2].viewport

\* C5 witness: resize(h, w, 1) twice in a row on a scene whose viewport was set
C5_Witness ==
  /\ SameResizeTwice
  /\ done[1].ratio = 1
  /\ done[1].viewport.canvasWidth = done[1].width

\* C6: when resize(h, w, d) has returned, the scene's viewport is (w, h); for d > 1
\* the buffer is (w * d, h * d) and the context scale is d, so logical (10, 10) is
\* physical (10 * d, 10 * d); otherwise the buffer is (w, h) and the scale is 1,
\* whatever the resizes that came before.
C6_PixelDensityScaling ==
  LastDone("RESIZE") =>
    LET sc == scenes[done[1].scene]
        h  == done[1].height
        w  == done[1].width
        d  == done[1].ratio
    IN  /\ sc.width = w
        /\ sc.height = h
        /\ d > 1 => /\ sc.canvasWidth = w * d
                    /\ sc.canvasHeight = h * d
                    /\ sc.scale = d
                    /\ <<10 * sc.scale, 10 * sc.scale>> = <<10 * d, 10 * d>>
        /\ d <= 1 => /\ sc.canvasWidth = w
                     /\ sc.canvasHeight = h
                     /\ sc.scale = 1

\* C6 witness: a resize with devicePixelRatio 2 that follows another one with ratio 2
C6_Witness ==
  /\ LastDone("RESIZE")
  /\ Len(done) = 2
  /\ done[2].op = "RESIZE"
  /\ done[2].scene = done[1].scene
  /\ done[2].ratio = 2
  /\ done[1].ratio = 2
  /\ scenes[done[1].scene].scale = 2
  /\ scenes[done[1].scene].canvasWidth = 2 * done[1].width

\* the calls one animate() makes on a collection: update on each object, clear,
\* draw on each object in collection order, drawFps
ExpectedCalls(objs) ==
  [k \in 1..Len(objs) |-> <<"update", objs[k].id>>]
    \o <<<<"clear", 0>>>>
    \o [k \in 1..Len(objs) |-> <<"draw", objs[k].id>>]
    \o <<<<"drawFps", 0>>>>

Calls == [k \in 1..Len(log) |-> <<log[k].ev, log[k].id>>]

\* C7: the calls an animate() has made so far are the first calls of: update once
\* on every object, clear once, draw once on every object in collection order,
\* drawFps; and when animate() has returned it has made all of them.
C7_TickOrder ==
  /\ InAnimate =>
       /\ Len(log) < Len(ExpectedCalls(scenes[Cur.scene].renderObjects))
       /\ Calls = SubSeq(ExpectedCalls(scenes[Cur.scene].renderObjects), 1, Len(log))
  /\ LastDone("TICK") => Calls = ExpectedCalls(scenes[done[1].scene].renderObjects)

\* C7 witness: an animate() has returned on a scene of two objects
C7_Witness ==
  /\ LastDone("TICK")
  /\ Len(scenes[done[1].scene].renderObjects) = 2
  /\ Len(log) = 6

\* the scenes of the callbacks in q, as a bag: scene |-> number of callbacks
CallbacksOf(q) == [s \in SceneIds |-> Cardinality({k \in 1..Len(q) : q[k] = s})]

\* C8: once a START has been handled a frame callback is pending at every moment;
\* the step that runs a callback re-arms one for the same scene (the pending
\* callbacks are the same, per scene, before and after), every other step keeps
\* the pending callbacks and at most adds one; and with a host that runs pending
\* callbacks, frame callbacks are run again and again, for ever (the count of
\* frames reaches the horizon and, past it, goes on alternating).
C8_LoopNeverStops ==
  /\ [](AnyStarted => pending # <<>>)
  /\ [][IF ticks' # ticks
        THEN CallbacksOf(pending') = CallbacksOf(pending)
        ELSE /\ Len(pending') >= Len(pending)
             /\ SubSeq(pending', 1, Len(pending)) = pending]_vars
  /\ (AnyStarted /\ ticks <= MaxTicks) ~> (ticks = MaxTicks + 1)
  /\ (ticks = MaxTicks + 1) ~> (ticks = MaxTicks)

\* C8 witness: frame callbacks still run past the horizon, after the scene was
\* started and a further message handled
C8_Witness ==
  /\ ticks = MaxTicks + 1
  /\ msgs = MaxMsgs
  /\ Idle
  /\ pending # <<>>
  /\ done[1].op \in {"RESIZE", "INIT", "START"}

\* the canvas calls of the log that read a viewport
ViewportCalls == {k \in 1..Len(log) : log[k].ev \in {"clear", "draw", "drawFps"}}

\* C9: handlers do not interleave: at most one handler is in execution; while an
\* animate() runs, its scene's width and height are those it began with and every
\* object of the scene holds that same width and height (none is left between two
\* resizeUpdate calls of a resize in progress); and the clear, the draws and the
\* overlay of one animate() all saw the same width and height.
C9_TickAtomic ==
  /\ Len(running) <= 1
  /\ InAnimate =>
       LET sc == scenes[Cur.scene]
       IN  /\ sc.width = pre[Cur.scene].width
           /\ sc.height = pre[Cur.scene].height
           /\ \A k \in 1..Len(sc.renderObjects) :
                /\ sc.renderObjects[k].width = sc.width
                /\ sc.renderObjects[k].height = sc.height
           /\ \A k \in 1..Len(running) : running[k].op # "resize"
  /\ \A j \in ViewportCalls, k \in ViewportCalls :
       log[j].w = log[k].w /\ log[j].h = log[k].h

\* C9 witness: an animate() is drawing the second of two objects, after a RESIZE
\* was handled on their scene
C9_Witness ==
  /\ InAnimate
  /\ Stage(Cur) = "draw"
  /\ Cur.i = 2
  /\ done # <<>>
  /\ done[1].op = "RESIZE"
  /\ done[1].scene = Cur.scene
  /\ scenes[Cur.scene].renderObjects[2].resizes = 1

\* C10: when an animate() has returned, with t_prev the lastDrawTime its scene had
\* when it began and t_now the time it read: t_now >= t_prev; if t_now > t_prev the
\* scene's fps is floor(1000 / (t_now - t_prev)), 62 for 0 then 16; lastDrawTime is
\* t_now; and the overlay, the last call of the tick, drew that fps.
C10_FrameRate ==
  LastDone("TICK") =>
    LET sc    == scenes[done[1].scene]
        tprev == pre[done[1].scene].lastDrawTime
        delta == now - tprev
    IN  /\ delta >= 0
        /\ delta > 0 => sc.fps = 1000 \div delta
        /\ (tprev = 0 /\ now = 16) => sc.fps = 62
        /\ sc.lastDrawTime = now
        /\ log # <<>>
        /\ log[Len(log)].ev = "drawFps"
        /\ log[Len(log)].a = sc.fps

\* C10 witness: a tick at 16 ms, the first of its scene, then one 16 ms later
C10_Witness ==
  /\ LastDone("TICK")
  /\ pre[done[1].scene].lastDrawTime = 16
  /\ pre[done[1].scene].fps = 62
  /\ now = 32
  /\ scenes[done[1].scene].fps = 62

\* the objects of the scene of VariantSpec
VariantObjects == scenes[1].renderObjects

\* C11 (as claimed): for every class and every order of START and RESIZE, when the
\* scene's width and height are positive, the coordinates every object is
\* rasterized at by a draw() (after any number of update() calls) are numbers,
\* never NaN or undefined.
C11_CoordinatesFinite ==
  (/\ LastDone("DRAW")
   /\ IsNum(scenes[1].width) /\ scenes[1].width > 0
   /\ IsNum(scenes[1].height) /\ scenes[1].height > 0) =>
    \A k \in 1..Len(log) : IsNum(log[k].a) /\ IsNum(log[k].b)

\* what does hold of C11: the coordinates are numbers for the classes RenderObject,
\* SlantedCircleDot and GlobeDot, and for a CircleDot constructed after a RESIZE
C11_FiniteButCircleDotBuiltEarly ==
  (/\ LastDone("DRAW")
   /\ IsNum(scenes[1].width) /\ scenes[1].width > 0
   /\ IsNum(scenes[1].height) /\ scenes[1].height > 0) =>
    \A k \in 1..Len(log) :
      (VariantObjects[k].class = "CircleDot" => IsNum(VariantObjects[k].radius)) =>
        IsNum(log[k].a) /\ IsNum(log[k].b)

\* C12 (as claimed): when resize(h, w, d) has returned, every object, of every
\* class, holds width w, height h, perspective 0.8 * w and the projection centre
\* (w / 2, h / 2), and a CircleDot or SlantedCircleDot holds radius w / 4.
C12_ResizeUpdateRecomputesAll ==
  LastDone("RESIZE") =>
    \A k \in 1..Len(VariantObjects) :
      LET o == VariantObjects[k]
          w == done[1].width
          h == done[1].height
      IN  /\ o.width = w
          /\ o.height = h
          /\ o.perspective = 800 * w
          /\ o.projection_center_x = (1000 * w) \div 2
          /\ o.projection_center_y = (1000 * h) \div 2
          /\ o.class \in {"CircleDot", "SlantedCircleDot"} => o.radius = (1000 * w) \div 4

\* what does hold of C12: every field but radius is recomputed
C12_AllButRadius ==
  LastDone("RESIZE") =>
    \A k \in 1..Len(VariantObjects) :
      LET o == VariantObjects[k]
          w == done[1].width
          h == done[1].height
      IN  /\ o.width = w
          /\ o.height = h
          /\ o.perspective = 800 * w
          /\ o.projection_center_x = (1000 * w) \div 2
          /\ o.projection_center_y = (1000 * h) \div 2

\* the values GlobeDot.constructor can give theta and phi
InitialThetas == {(r * 628) \div 10 : r \in ThetaRandoms}
InitialPhis == {Acos2uMinus1(r) : r \in PhiRandoms}

\* C13: a GlobeDot's phi is the one its constructor drew and its theta is the one
\* its constructor drew plus one increment of 0.01 per update() it has received;
\* no step changes phi; a step changes theta only if it is an update() of that
\* object, and then by 0.01, whatever draws and resizes come in between.
C13_AnglesOnlyUpdate ==
  /\ [](\A s \in SceneIds : \A k \in 1..Len(scenes[s].renderObjects) :
          LET o == scenes[s].renderObjects[k]
          IN  /\ o.phi \in InitialPhis
              /\ o.theta - o.updates \in InitialThetas)
  /\ [][\A s \in SceneIds : \A k \in 1..Len(scenes[s].renderObjects) :
          LET o == scenes[s].renderObjects[k]
              n == scenes'[s].renderObjects[k]
          IN  /\ n.id = o.id
              /\ n.phi = o.phi
              /\ n.theta = o.theta + (n.updates - o.updates)
              /\ n.updates # o.updates =>
                   /\ n.updates = o.updates + 1
                   /\ InAnimate
                   /\ Stage(Cur) = "update"
                   /\ Cur.scene = s
                   /\ Cur.i = k]_vars

\* C13 witness: an object that was resized and then updated and drawn in two ticks
C13_Witness ==
  /\ LastDone("TICK")
  /\ \E k \in 1..Len(scenes[done[1].scene].renderObjects) :
       LET o == scenes[done[1].scene].renderObjects[k]
       IN  /\ o.updates = 2
           /\ o.resizes = 1
           /\ o.theta = 316
           /\ o.xProjected # 0

\* where and how large draw() rasterizes an object p that project() has left in p:
\* arc(x, y, 3) for CircleDot, (xProjected, yProjected, 5 * scaleProjected) for
\* SlantedCircleDot and GlobeDot
RasterPoint(p) ==
  IF p.class = "CircleDot"
  THEN <<p.x, p.y, 3000>>
  ELSE <<p.xProjected, p.yProjected, Mul(5, p.scaleProjected)>>

\* C14: for CircleDot, SlantedCircleDot and GlobeDot, the point and the size every
\* draw() rasterizes an object at are those project() computes, in that draw()
\* call, from the angle(s) and the stored width and height the object has when
\* draw() is called (so after every update() and resizeUpdate() it has received);
\* they are also what the object holds once draw() has returned, and for a GlobeDot
\* what the worker's GlobeDot.draw() rasterizes.
C14_DrawProjectsFirst ==
  /\ [](LastDone("DRAW") =>
          /\ Len(log) = Len(VariantObjects)
          /\ \A k \in 1..Len(VariantObjects) :
               LET o == VariantObjects[k]
               IN  o.class # "RenderObject" =>
                     /\ log[k].id = o.id
                     /\ <<log[k].a, log[k].b, log[k].c>> = RasterPoint(Project(o))
                     /\ <<log[k].a, log[k].b, log[k].c>> = RasterPoint(o)
                     /\ o.class = "GlobeDot" =>
                          LET g == GlobeDotDraw(o, 0).call
                          IN  <<log[k].a, log[k].b, log[k].c>> = <<g.a, g.b, g.c>>)
  /\ [][(done' # <<>> /\ done'[1].op = "DRAW") =>
          \A k \in 1..Len(VariantObjects) :
            LET o == VariantObjects[k]
            IN  o.class # "RenderObject" =>
                  /\ <<log'[k].a, log'[k].b, log'[k].c>> = RasterPoint(Project(o))
                  /\ scenes'[1].renderObjects[k] = Project(o)]_vars

\* C14 witness: a draw() of two SlantedCircleDot objects, one constructed before the
\* RESIZE and one after it, both updated since
C14_Witness ==
  /\ LastDone("DRAW")
  /\ Len(VariantObjects) = 2
  /\ VariantObjects[1].class = "SlantedCircleDot"
  /\ VariantObjects[1].resizes = 1
  /\ VariantObjects[2].resizes = 0
  /\ VariantObjects[2].updates = 1
  /\ IsNum(log[1].a) /\ log[1].a # 0
  /\ log[2].c # 0

\* the scene of the animate() in execution, or of the one that returned last
TickScene == IF InAnimate THEN Cur.scene ELSE done[1].scene

InStart == running # <<>> /\ Cur.op = "start"

\* C16 (as claimed): whatever integer renderObjectCount INIT carried, a START that
\* is being handled comes to its end: init() returns after finitely many pushes
\* and start() has then scheduled one frame callback.
C16_StartTerminates ==
  /\ InStart ~> LastDone("START")
  /\ [][(InStart /\ ~InStart') => Len(pending') = Len(pending) + 1]_vars

\* what does hold of C16: start() comes to its end when renderObjectCount >= 0, and
\* has then pushed renderObjectCount objects
C16_TerminatesForNaturalCount ==
  /\ (InStart /\ scenes[Cur.scene].renderObjectCount >= 0) ~> LastDone("START")
  /\ [][(InStart /\ ~InStart') =>
          /\ Len(pending') = Len(pending) + 1
          /\ Len(scenes'[Cur.scene].renderObjects) =
               Len(pre[Cur.scene].renderObjects) + scenes[Cur.scene].renderObjectCount]_vars

\* C17: between handlers, every render object of every scene holds, as its width
\* and height, the width and height its scene holds at that moment: undefined on
\* both sides while the scene has had no RESIZE, the values of the last RESIZE
\* afterwards, for objects built before it and for objects built after it.
C17_ObjectViewportIsSceneViewport ==
  Idle =>
    \A s \in SceneIds : \A k \in 1..Len(scenes[s].renderObjects) :
      /\ scenes[s].renderObjects[k].width = scenes[s].width
      /\ scenes[s].renderObjects[k].height = scenes[s].height
      /\ (scenes[s].width = Undefined) = (scenes[s].height = Undefined)

\* C17 witness: between handlers after a tick, an object that was built before the
\* first RESIZE of its scene holds the viewport of that RESIZE
C17_Witness ==
  /\ LastDone("TICK")
  /\ Len(done) = 2
  /\ done[2].op = "RESIZE"
  /\ done[2].scene = done[1].scene
  /\ scenes[done[1].scene].renderObjects # <<>>
  /\ scenes[done[1].scene].renderObjects[1].resizes = 1
  /\ scenes[done[1].scene].renderObjects[1].width = done[2].width
  /\ scenes[done[1].scene].width = done[2].width

\* the START messages handled so far without a fault, over all scenes
StartsHandled(n) ==
  LET RECURSIVE Sum(_)
      Sum(k) == IF k = 0 THEN 0 ELSE scenes[k].starts + Sum(k - 1)
  IN  Sum(n)

\* C18: between handlers (and at every other moment) the number of frame callbacks
\* pending is the number of START messages handled without a fault so far, over
\* all the scenes INIT has constructed, and per scene the number of start() calls
\* on it; a step never lowers the number: a tick takes one callback and requests
\* one for the same scene, a START adds one and keeps those that were pending, INIT,
\* RESIZE and a faulting message leave them as they are.
C18_PendingEqualsStarts ==
  /\ [](/\ Len(pending) = StartsHandled(Len(scenes))
        /\ \A s \in SceneIds : CallbacksOf(pending)[s] = scenes[s].starts)
  /\ [][/\ Len(pending') >= Len(pending)
        /\ ticks' # ticks =>
             /\ Len(pending') = Len(pending)
             /\ pending' = Append(Tail(pending), Head(pending))
        /\ (msgs' = msgs + 1 /\ LastDone("START")') =>
             pending' = Append(pending, canvasScene)
        /\ (msgs' = msgs + 1 /\ ~LastDone("START")') => pending' = pending]_vars

\* C18 witness: START handled twice on one scene, then a tick: two callbacks are
\* pending for that scene
C18_Witness ==
  /\ LastDone("TICK")
  /\ scenes[done[1].scene].starts = 2
  /\ pending = <<done[1].scene, done[1].scene>>
  /\ ticks = 1

====
